---- MODULE Spec2Model ----
(***************************************************************************)
(* Model of the transaction-tracking API: the transaction endpoints        *)
(* (create, list, summary), the currency-conversion endpoint and the       *)
(* exchange-rate converter service.                                        *)
(*                                                                         *)
(* Representation choices:                                                 *)
(*  - a text value that the code inspects character by character (a        *)
(*    currency code) is a sequence of ASCII codes, so that upper(), the    *)
(*    regular expression and the alphabetical ORDER BY are computed;       *)
(*  - a decimal number crossing the HTTP boundary (a JSON float) is an     *)
(*    integer number of millionths (DecUnit per 1.0);                      *)
(*  - a stored amount is the integer the code writes to the BigInteger     *)
(*    column.                                                              *)
(***************************************************************************)
EXTENDS Integers, Sequences, FiniteSets, TLC

(***************************************************************************)
(* Bounds of the model.                                                    *)
(***************************************************************************)
MaxTx == 2
MaxClock == 1

(***************************************************************************)
(* Decimal numbers at the boundary: millionths.                            *)
(***************************************************************************)
DecUnit == 1000000

\* Python's None for an optional value: the empty sequence; a present value
\* v is <<v>>.
None == <<>>
Some(v) == <<v>>

\* request.state.user is None: no caller identity was resolved.
NoUser == 0

\* ---------------------------------------------------------------- text --
USD == <<85, 83, 68>>
EUR == <<69, 85, 82>>
GBP == <<71, 66, 80>>
XYZ == <<88, 89, 90>>
eur_lower == <<101, 117, 114>>
us_dollar_sign == <<117, 115, 36>>
EUR_newline == <<69, 85, 82, 10>>

\* The currency strings a client sends (request body or path parameter).
CurrencyInputs == {USD, eur_lower, XYZ, us_dollar_sign, EUR_newline}

\* app.core.constants.SUPPORTED_CURRENCIES: the whitelist of codes.
SUPPORTED_CURRENCIES == {USD, EUR, GBP}

IsUpperLetter(ch) == ch \in 65..90

\* str.upper() on ASCII text.
upper(s) == [i \in 1..Len(s) |-> IF s[i] \in 97..122 THEN s[i] - 32 ELSE s[i]]

\* re.match(r"^[A-Z]{3}$", s): three capital letters; "$" also matches
\* just before one trailing newline.
MatchesCurrencyRegex(s) ==
    /\ Len(s) \in {3, 4}
    /\ \A i \in 1..3 : IsUpperLetter(s[i])
    /\ Len(s) = 4 => s[4] = 10

\* Lexicographic order of two texts (ORDER BY on the currency column).
RECURSIVE TextLess(_, _)
TextLess(s, t) ==
    IF Len(t) = 0 THEN FALSE
    ELSE IF Len(s) = 0 THEN TRUE
    ELSE IF Head(s) # Head(t) THEN Head(s) < Head(t)
    ELSE TextLess(Tail(s), Tail(t))

\* --------------------------------------------------------------- money --
\* Amounts a client sends, in millionths: -1.00, 0, 0.29, 1.00.
AmountInputs == {-1000000, 0, 290000, 1000000}

\* The hundredths q, among 0..3, for which round() takes the decimal tie
\* q.5 hundredths up: the binary64 value of 0.005, 0.025 and 0.035 lies
\* above the tie, that of 0.015 below it. No larger tie is drawn.
TieRoundsUpHundredths == {0, 2, 3}

\* round(v, 2) of a non-negative decimal: the nearest hundredth, a decimal
\* tie going the way its binary64 value lies.
Round2(v) ==
    LET step == DecUnit \div 100
        q == v \div step
        r == v % step
    IN  IF 2 * r > step \/ (2 * r = step /\ q \in TieRoundsUpHundredths)
        THEN (q + 1) * step
        ELSE q * step

\* validate_amount with the test v < 0, which lets an amount of zero through.
validate_amount_allows_zero(v) ==
    IF v < 0
    THEN [ok |-> FALSE, value |-> 0, msg |-> "Amount must be positive"]
    ELSE [ok |-> TRUE, value |-> Round2(v), msg |-> ""]

\* TransactionCreate.validate_amount
validate_amount(v) ==
    IF v <= 0
    THEN [ok |-> FALSE, value |-> 0, msg |-> "Amount must be positive"]
    ELSE [ok |-> TRUE, value |-> Round2(v), msg |-> ""]

\* validate_currency checking the uppercased code but returning the code as
\* it was sent.
validate_currency_keeps_case(v) ==
    LET u == upper(v)
    IN  IF ~MatchesCurrencyRegex(u)
        THEN [ok |-> FALSE, value |-> v, msg |-> "Currency must be a 3-letter code"]
        ELSE IF u \notin SUPPORTED_CURRENCIES
        THEN [ok |-> FALSE, value |-> v, msg |-> "Currency code not supported"]
        ELSE [ok |-> TRUE, value |-> v, msg |-> ""]

\* TransactionCreate.validate_currency
validate_currency(v) ==
    LET u == upper(v)
    IN  IF ~MatchesCurrencyRegex(u)
        THEN [ok |-> FALSE, value |-> u, msg |-> "Currency must be a 3-letter code"]
        ELSE IF u \notin SUPPORTED_CURRENCIES
        THEN [ok |-> FALSE, value |-> u, msg |-> "Currency code not supported"]
        ELSE [ok |-> TRUE, value |-> u, msg |-> ""]

\* Hundredths h in 1..128 for which the binary64 product (h/100) * 100 is
\* just below h, so that int() of it is h - 1.
TruncLossHundredths == {29, 57, 58, 113, 114, 115, 116}

\* int(transaction_data.amount * 100) of create_transaction, for an amount
\* that validate_amount has rounded to hundredths.
AmountToStored(amount) ==
    LET h == amount \div (DecUnit \div 100)
    IN  IF h \in TruncLossHundredths THEN h - 1 ELSE h

\* TransactionResponse.serialize_amount: amount / 10000.0
serialize_amount(amount) == amount * (DecUnit \div 10000)

\* float(row.total_amount) / 100.0 of get_transaction_summary
SummaryTotal(total_amount) == total_amount * (DecUnit \div 100)

\* ---------------------------------------------------------- the state --
Users == {1, 2}
Callers == Users \cup {NoUser}

VARIABLES
    store,      \* rows of the transactions table, in insertion order
    nextId,     \* the next value of the id sequence
    now,        \* the database clock (func.now())
    req,        \* the request handled last
    resp,       \* its response
    rateCalls,  \* the requests it sent to the exchange-rate API
    conv,       \* what CurrencyConverter.convert returned to it
    before      \* the rows of the table when that request arrived

vars == <<store, nextId, now, req, resp, rateCalls, conv, before>>

NoConv == [amount |-> None, error |-> None, called |-> FALSE]

\* A response: status, detail of an HTTPException, messages of a request
\* validation error, and the body fields of the three response models.
Response(status, detail, errors, items, page, summary) ==
    [status |-> status, detail |-> detail, errors |-> errors,
     items |-> items, page |-> page, summary |-> summary]

NoPage == [total |-> 0, page |-> 0, per_page |-> 0, total_pages |-> 0]

HTTPError(status, detail) == Response(status, detail, <<>>, <<>>, NoPage, <<>>)
ValidationError(errors) == Response(422, "", errors, <<>>, NoPage, <<>>)

\* get_current_user: 401 when the middleware resolved no user.
Unauthorized == HTTPError(401, "Could not validate credentials")

\* A row serialised through TransactionResponse.
TransactionResponse(id, amount, currency, created_at) ==
    [id |-> id, amount |-> serialize_amount(amount), currency |-> currency,
     created_at |-> created_at]

RowResponse(t) == TransactionResponse(t.id, t.amount, t.currency, t.created_at)

\* OwnRows without the filter.
OwnRows_unfiltered(rows, user) == {rows[i] : i \in 1..Len(rows)}

\* The rows of a table that the filter user_id == current_user.id selects.
OwnRows(rows, user) == {rows[i] : i \in {j \in 1..Len(rows) : rows[j].user_id = user}}

NoRequest == [op |-> "none"]
NoResponse == HTTPError(0, "")

\* No request is being handled: the next one can arrive.
Idle == req = NoRequest

Init ==
    /\ store = <<>>
    /\ nextId = 1
    /\ now = 0
    /\ req = NoRequest
    /\ resp = NoResponse
    /\ rateCalls = <<>>
    /\ conv = NoConv
    /\ before = <<>>

\* The database clock advances between two requests.
Tick ==
    /\ Idle
    /\ now < MaxClock
    /\ now' = now + 1
    /\ UNCHANGED <<store, nextId, req, resp, rateCalls, conv, before>>

\* The response of the request handled last reaches the client; the next
\* request can arrive.
Deliver ==
    /\ ~Idle
    /\ req' = NoRequest
    /\ resp' = NoResponse
    /\ rateCalls' = <<>>
    /\ conv' = NoConv
    /\ before' = store
    /\ UNCHANGED <<store, nextId, now>>

\* create_transaction with duplicate detection: a second create of the same
\* amount and currency by the same user answers with the existing row.
create_transaction_dedup(user, amount, currency) ==
    LET a == validate_amount(amount)
        c == validate_currency(currency)
        errors == (IF a.ok THEN <<>> ELSE <<a.msg>>) \o (IF c.ok THEN <<>> ELSE <<c.msg>>)
        new_transaction == [id |-> nextId, user_id |-> user,
                            amount |-> AmountToStored(a.value),
                            currency |-> c.value, created_at |-> now]
        same == {i \in 1..Len(store) :
                    /\ store[i].user_id = user
                    /\ store[i].amount = new_transaction.amount
                    /\ store[i].currency = new_transaction.currency}
    IN  /\ Idle
        /\ before' = store
        /\ req' = [op |-> "create", user |-> user, amount |-> amount, currency |-> currency]
        /\ rateCalls' = <<>>
        /\ conv' = NoConv
        /\ UNCHANGED now
        /\ IF user = NoUser
           THEN resp' = Unauthorized /\ UNCHANGED <<store, nextId>>
           ELSE IF errors # <<>>
           THEN resp' = ValidationError(errors) /\ UNCHANGED <<store, nextId>>
           ELSE IF same # {}
           THEN /\ resp' = Response(201, "", <<>>,
                                    <<RowResponse(store[CHOOSE i \in same : TRUE])>>,
                                    NoPage, <<>>)
                /\ UNCHANGED <<store, nextId>>
           ELSE /\ Len(store) < MaxTx
                /\ store' = Append(store, new_transaction)
                /\ nextId' = nextId + 1
                /\ resp' = Response(201, "", <<>>, <<RowResponse(new_transaction)>>,
                                    NoPage, <<>>)

\* POST /transactions/
create_transaction(user, amount, currency) ==
    LET a == validate_amount(amount)
        c == validate_currency(currency)
        errors == (IF a.ok THEN <<>> ELSE <<a.msg>>) \o (IF c.ok THEN <<>> ELSE <<c.msg>>)
        new_transaction == [id |-> nextId, user_id |-> user,
                            amount |-> AmountToStored(a.value),
                            currency |-> c.value, created_at |-> now]
    IN  /\ Idle
        /\ before' = store
        /\ req' = [op |-> "create", user |-> user, amount |-> amount, currency |-> currency]
        /\ rateCalls' = <<>>
        /\ conv' = NoConv
        /\ UNCHANGED now
        /\ IF user = NoUser
           THEN resp' = Unauthorized /\ UNCHANGED <<store, nextId>>
           ELSE IF errors # <<>>
           THEN resp' = ValidationError(errors) /\ UNCHANGED <<store, nextId>>
           ELSE /\ Len(store) < MaxTx
                /\ store' = Append(store, new_transaction)
                /\ nextId' = nextId + 1
                /\ resp' = Response(201, "", <<>>, <<RowResponse(new_transaction)>>,
                                    NoPage, <<>>)

\* ------------------------------------------------------------- listing --
PageInputs == {0, 1, 2}
PerPageInputs == {1, 2, 51}

\* The sum of the amount column over the rows of a sequence that satisfy
\* the WHERE and GROUP BY of the summary query (func.sum).
RECURSIVE SumAmounts(_, _, _)
SumAmounts(rows, user, currency) ==
    IF rows = <<>> THEN 0
    ELSE (IF Head(rows).user_id = user /\ Head(rows).currency = currency
          THEN Head(rows).amount ELSE 0)
         + SumAmounts(Tail(rows), user, currency)

\* ORDER BY created_at DESC over a set of rows: every ordering of the rows
\* in which created_at never increases (SQL leaves the order of rows with
\* equal keys open).
OrderByCreatedAtDesc(S) ==
    LET n == Cardinality(S)
    IN  {f \in [1..n -> S] :
            /\ \A i, j \in 1..n : i # j => f[i] # f[j]
            /\ \A i \in 1..n, j \in 1..n : i < j => f[i].created_at >= f[j].created_at}

\* LIMIT per_page OFFSET offset of an ordered result.
LimitOffset(rows, per_page, offset) ==
    LET last == IF offset + per_page < Len(rows) THEN offset + per_page ELSE Len(rows)
    IN  IF offset >= Len(rows) THEN <<>>
        ELSE [i \in 1..(last - offset) |-> rows[offset + i]]

\* The validation of the page and per_page query parameters (ge=1, le=50).
QueryErrors(page, per_page) ==
    (IF page < 1 THEN <<"Input should be greater than or equal to 1">> ELSE <<>>)
    \o (IF per_page < 1 THEN <<"Input should be greater than or equal to 1">>
        ELSE IF per_page > 50 THEN <<"Input should be less than or equal to 50">>
        ELSE <<>>)

\* ListResponse with the number of pages rounded down.
ListResponse_floor_pages(rows, user, page, per_page, ordered) ==
    LET offset == (page - 1) * per_page
        total == Cardinality(OwnRows(rows, user))
        transactions == LimitOffset(ordered, per_page, offset)
        total_pages == IF total > 0 THEN total \div per_page ELSE 0
    IN  Response(200, "", <<>>,
                 [i \in 1..Len(transactions) |-> RowResponse(transactions[i])],
                 [total |-> total, page |-> page, per_page |-> per_page,
                  total_pages |-> total_pages],
                 <<>>)

\* The body of list_transactions, for one ordering the database returns.
ListResponse(rows, user, page, per_page, ordered) ==
    LET offset == (page - 1) * per_page
        total == Cardinality(OwnRows(rows, user))
        transactions == LimitOffset(ordered, per_page, offset)
        total_pages == IF total > 0 THEN (total + per_page - 1) \div per_page ELSE 0
    IN  Response(200, "", <<>>,
                 [i \in 1..Len(transactions) |-> RowResponse(transactions[i])],
                 [total |-> total, page |-> page, per_page |-> per_page,
                  total_pages |-> total_pages],
                 <<>>)

\* list_transactions deleting the rows it has returned.
list_transactions_consuming(user, page, per_page) ==
    /\ Idle
    /\ before' = store
    /\ req' = [op |-> "list", user |-> user, page |-> page, per_page |-> per_page]
    /\ rateCalls' = <<>>
    /\ conv' = NoConv
    /\ UNCHANGED <<nextId, now>>
    /\ IF user = NoUser
       THEN resp' = Unauthorized /\ UNCHANGED store
       ELSE IF QueryErrors(page, per_page) # <<>>
       THEN resp' = ValidationError(QueryErrors(page, per_page)) /\ UNCHANGED store
       ELSE \E ordered \in OrderByCreatedAtDesc(OwnRows(store, user)) :
               /\ resp' = ListResponse(store, user, page, per_page, ordered)
               /\ store' = SelectSeq(store,
                                LAMBDA t : \A i \in 1..Len(resp'.items) :
                                              resp'.items[i].id # t.id)

\* GET /transactions/
list_transactions(user, page, per_page) ==
    /\ Idle
    /\ before' = store
    /\ req' = [op |-> "list", user |-> user, page |-> page, per_page |-> per_page]
    /\ rateCalls' = <<>>
    /\ conv' = NoConv
    /\ UNCHANGED <<store, nextId, now>>
    /\ IF user = NoUser
       THEN resp' = Unauthorized
       ELSE IF QueryErrors(page, per_page) # <<>>
       THEN resp' = ValidationError(QueryErrors(page, per_page))
       ELSE \E ordered \in OrderByCreatedAtDesc(OwnRows(store, user)) :
               resp' = ListResponse(store, user, page, per_page, ordered)

\* SummaryRows with the ORDER BY descending.
SummaryRows_descending(rows, user) ==
    LET currencies == {t.currency : t \in OwnRows(rows, user)}
        n == Cardinality(currencies)
        ordered == CHOOSE f \in [1..n -> currencies] :
                      \A i, j \in 1..n : i < j => TextLess(f[j], f[i])
    IN  [i \in 1..n |-> [currency |-> ordered[i],
                         total_amount |-> SumAmounts(rows, user, ordered[i])]]

\* The rows of the summary query: one (currency, total_amount) per currency
\* of the user's rows, ORDER BY currency ascending.
SummaryRows(rows, user) ==
    LET currencies == {t.currency : t \in OwnRows(rows, user)}
        n == Cardinality(currencies)
        ordered == CHOOSE f \in [1..n -> currencies] :
                      \A i, j \in 1..n : i < j => TextLess(f[i], f[j])
    IN  [i \in 1..n |-> [currency |-> ordered[i],
                         total_amount |-> SumAmounts(rows, user, ordered[i])]]

\* The list of CurrencySummary built from the rows.
CurrencySummary(rows, user) ==
    LET r == SummaryRows(rows, user)
    IN  [i \in 1..Len(r) |-> [currency |-> r[i].currency,
                              total |-> SummaryTotal(r[i].total_amount)]]

\* get_transaction_summary without the get_current_user dependency: the
\* query runs for whoever calls.
get_transaction_summary_open(user) ==
    /\ Idle
    /\ before' = store
    /\ req' = [op |-> "summary", user |-> user]
    /\ rateCalls' = <<>>
    /\ conv' = NoConv
    /\ UNCHANGED <<store, nextId, now>>
    /\ resp' = Response(200, "", <<>>, <<>>, NoPage, CurrencySummary(store, user))

\* GET /transactions/summary/
get_transaction_summary(user) ==
    /\ Idle
    /\ before' = store
    /\ req' = [op |-> "summary", user |-> user]
    /\ rateCalls' = <<>>
    /\ conv' = NoConv
    /\ UNCHANGED <<store, nextId, now>>
    /\ IF user = NoUser
       THEN resp' = Unauthorized
       ELSE resp' = Response(200, "", <<>>, <<>>, NoPage, CurrencySummary(store, user))

\* ------------------------------------------------- the rate converter --
\* What the exchange-rate API does with one request: the transport outcome
\* and, for a parsed JSON object, its fields.  conversion_result is in
\* millionths; result_type says whether the field is missing, a number or
\* some text.
Outcome(kind, status, result, error_type, result_type, conversion_result) ==
    [kind |-> kind, status |-> status, result |-> result, error_type |-> error_type,
     result_type |-> result_type, conversion_result |-> conversion_result]

ApiOutcomes ==
    { Outcome("timeout", 0, "", None, "missing", 0),
      Outcome("status", 500, "", None, "missing", 0),
      Outcome("network", 0, "", None, "missing", 0),
      Outcome("bad_json", 200, "", None, "missing", 0),
      Outcome("not_object", 200, "", None, "missing", 0),
      Outcome("object", 200, "error", Some("quota-reached"), "missing", 0),
      Outcome("object", 200, "error", Some("foo-bar"), "number", 85000000),
      Outcome("object", 200, "error", None, "missing", 0),
      Outcome("object", 200, "success", None, "missing", 0),
      Outcome("object", 200, "success", None, "text", 0),
      Outcome("object", 200, "success", None, "number", 85000000),
      Outcome("object", 200, "success", None, "number", 9753024) }

\* _translate_api_error with a default message that drops the code.
translate_api_error_no_code(error_type) ==
    CASE error_type = "unsupported-code" -> "Currency code not supported"
      [] error_type = "malformed-request" -> "Invalid currency conversion request"
      [] error_type = "invalid-key" -> "Invalid API key"
      [] error_type = "inactive-account" -> "Currency API account is inactive"
      [] error_type = "quota-reached" -> "Currency API quota exceeded"
      [] OTHER -> "Currency API error"

\* CurrencyConverter._translate_api_error
translate_api_error(error_type) ==
    CASE error_type = "unsupported-code" -> "Currency code not supported"
      [] error_type = "malformed-request" -> "Invalid currency conversion request"
      [] error_type = "invalid-key" -> "Invalid API key"
      [] error_type = "inactive-account" -> "Currency API account is inactive"
      [] error_type = "quota-reached" -> "Currency API quota exceeded"
      [] OTHER -> "Currency API error: " \o error_type

\* The multiples n of 0.0001, among 1..128, whose binary64 product
\* (n / 10000) * 10000 falls just below n, so that int() gives n - 1:
\* int(0.0003 * 10000) = 2. The larger results drawn below (1.0, 9.7486,
\* 85.0) are not among the losers.
TruncLossTenThousandths == {3, 6, 12, 24, 29, 48, 58, 93, 96, 113, 116}

\* int(conversion_result * 10000): the binary64 product, truncated toward
\* zero.
ResultToMicroCents(conversion_result) ==
    LET step == DecUnit \div 10000
        magnitude == IF conversion_result >= 0 THEN conversion_result
                     ELSE -conversion_result
        q == magnitude \div step
        truncated == IF magnitude % step = 0 /\ q \in TruncLossTenThousandths
                     THEN q - 1 ELSE q
    IN  IF conversion_result >= 0 THEN truncated ELSE -truncated

ConvertOk(amount) == [called |-> TRUE, amount |-> Some(amount), error |-> None]

\* ConvertFailed returning 0 instead of None next to the message.
ConvertFailed_with_amount(error) == [called |-> TRUE, amount |-> Some(0), error |-> Some(error)]

ConvertFailed(error) == [called |-> TRUE, amount |-> None, error |-> Some(error)]

\* The request CurrencyConverter.convert sends: the pair and the amount in
\* currency units (amount_micro_cents / 10000.0).
RateRequest(amount_micro_cents, from_currency, to_currency) ==
    [from_currency |-> from_currency, to_currency |-> to_currency,
     amount_currency_units |-> amount_micro_cents * (DecUnit \div 10000)]

\* SentRequests trying once more after a transport failure.
SentRequests_retry(amount_micro_cents, from_currency, to_currency, outcome) ==
    IF outcome.kind \in {"timeout", "network", "status"}
    THEN <<RateRequest(amount_micro_cents, from_currency, to_currency),
           RateRequest(amount_micro_cents, from_currency, to_currency)>>
    ELSE <<RateRequest(amount_micro_cents, from_currency, to_currency)>>

\* The requests one call of CurrencyConverter.convert sends: a single
\* client.get(url), whatever comes back.
SentRequests(amount_micro_cents, from_currency, to_currency, outcome) ==
    <<RateRequest(amount_micro_cents, from_currency, to_currency)>>

\* convert with the handler of RequestError ahead of that of
\* TimeoutException, which is one of its subclasses.
convert_timeout_as_network(amount_micro_cents, from_currency, to_currency, outcome) ==
    CASE outcome.kind = "timeout" ->
            ConvertFailed("Failed to connect to currency API: Read timed out")
      [] outcome.kind = "status" ->
            ConvertFailed("Currency API returned error: " \o ToString(outcome.status))
      [] outcome.kind = "network" ->
            ConvertFailed("Failed to connect to currency API: Connection refused")
      [] outcome.kind = "bad_json" ->
            ConvertFailed("Failed to parse currency API response: Expecting value")
      [] outcome.kind = "not_object" ->
            ConvertFailed("Unexpected error during currency conversion: 'list' object has no attribute 'get'")
      [] outcome.kind = "object" ->
            IF outcome.result = "error"
            THEN ConvertFailed(translate_api_error(
                     IF outcome.error_type = None THEN "unknown"
                     ELSE outcome.error_type[1]))
            ELSE IF outcome.result_type = "missing"
            THEN ConvertFailed("Invalid response from currency API")
            ELSE IF outcome.result_type = "text"
            THEN ConvertFailed("Failed to parse currency API response: invalid literal for int()")
            ELSE IF outcome.result_type = "infinite"
            THEN ConvertFailed("Unexpected error during currency conversion: cannot convert float infinity to integer")
            ELSE ConvertOk(ResultToMicroCents(outcome.conversion_result))

\* CurrencyConverter.convert, given what the API does with its request.
convert(amount_micro_cents, from_currency, to_currency, outcome) ==
    CASE outcome.kind = "timeout" ->
            ConvertFailed("Currency conversion request timed out")
      [] outcome.kind = "status" ->
            ConvertFailed("Currency API returned error: " \o ToString(outcome.status))
      [] outcome.kind = "network" ->
            ConvertFailed("Failed to connect to currency API: Connection refused")
      [] outcome.kind = "bad_json" ->
            ConvertFailed("Failed to parse currency API response: Expecting value")
      [] outcome.kind = "not_object" ->
            ConvertFailed("Unexpected error during currency conversion: 'list' object has no attribute 'get'")
      [] outcome.kind = "object" ->
            IF outcome.result = "error"
            THEN ConvertFailed(translate_api_error(
                     IF outcome.error_type = None THEN "unknown"
                     ELSE outcome.error_type[1]))
            ELSE IF outcome.result_type = "missing"
            THEN ConvertFailed("Invalid response from currency API")
            ELSE IF outcome.result_type = "text"
            THEN ConvertFailed("Failed to parse currency API response: invalid literal for int()")
            ELSE IF outcome.result_type = "infinite"
            THEN ConvertFailed("Unexpected error during currency conversion: cannot convert float infinity to integer")
            ELSE ConvertOk(ResultToMicroCents(outcome.conversion_result))

\* The outcomes the converter is tried on by itself: those above, every
\* error code of the table, error bodies under a non-2xx status, and
\* results that are zero, negative or not finite.
ConverterOutcomes ==
    ApiOutcomes \cup
    { Outcome("status", 403, "error", Some("invalid-key"), "missing", 0),
      Outcome("status", 404, "success", None, "number", 85000000),
      Outcome("object", 200, "error", Some("unsupported-code"), "missing", 0),
      Outcome("object", 200, "error", Some("malformed-request"), "missing", 0),
      Outcome("object", 200, "error", Some("invalid-key"), "missing", 0),
      Outcome("object", 200, "error", Some("inactive-account"), "number", 1000000),
      Outcome("object", 200, "error", Some(""), "missing", 0),
      Outcome("object", 200, "success", None, "infinite", 0),
      Outcome("object", 200, "success", None, "number", 0),
      Outcome("object", 200, "success", None, "number", 9748600),
      Outcome("object", 200, "success", None, "number", 300),
      Outcome("object", 200, "success", None, "number", 399),
      Outcome("object", 200, "success", None, "number", -1500050) }

\* The amounts (in stored units) and currency pairs the converter is tried on.
ConverterAmounts == {28, 100, 123400}
ConverterPairs == {<<USD, EUR>>, <<EUR, USD>>, <<USD, XYZ>>}

\* The converter by itself: a call with its arguments and what the API will
\* do with the request.
InitConverter ==
    /\ store = <<>>
    /\ nextId = 1
    /\ now = 0
    /\ req \in {[op |-> "rate", amount_micro_cents |-> a, from_currency |-> p[1],
                 to_currency |-> p[2], outcome |-> o] :
                    a \in ConverterAmounts, p \in ConverterPairs, o \in ConverterOutcomes}
    /\ resp = NoResponse
    /\ rateCalls = <<>>
    /\ conv = NoConv
    /\ before = <<>>

\* await converter.convert(...)
CallConvert ==
    /\ req.op = "rate"
    /\ ~conv.called
    /\ conv' = convert(req.amount_micro_cents, req.from_currency, req.to_currency,
                       req.outcome)
    /\ rateCalls' = SentRequests(req.amount_micro_cents, req.from_currency,
                                 req.to_currency, req.outcome)
    /\ UNCHANGED <<store, nextId, now, req, resp, before>>

NextConverter == CallConvert

SpecConverter == InitConverter /\ [][NextConverter]_vars

\* --------------------------------------------------------- conversion --
TargetInputs == CurrencyInputs
IdInputs == 1..(MaxTx + 1)

\* FindTransaction without the user_id condition.
FindTransaction_any_owner(rows, transaction_id, user) ==
    LET found == {i \in 1..Len(rows) : rows[i].id = transaction_id}
    IN  IF found = {} THEN None ELSE Some(rows[CHOOSE i \in found : TRUE])

\* select(Transaction).where(id == transaction_id, user_id == current_user.id)
\* followed by scalar_one_or_none().
FindTransaction(rows, transaction_id, user) ==
    LET found == {i \in 1..Len(rows) :
                     rows[i].id = transaction_id /\ rows[i].user_id = user}
    IN  IF found = {} THEN None ELSE Some(rows[CHOOSE i \in found : TRUE])

\* SameCurrency without the short cut.
SameCurrency_never(transaction, target) == FALSE

\* "if transaction.currency == target_currency: return transaction"
SameCurrency(transaction, target) == transaction.currency = target

\* ConversionFailed passing the converter's message on to the client.
ConversionFailed_leaky(error) == HTTPError(503, error)

\* The handling of a converter error: the detail goes to the log, the
\* client gets a fixed 503.
ConversionFailed(error) == HTTPError(503, "Currency conversion failed")

\* ConvertedResponse leaving created_at to the current time.
ConvertedResponse_fresh(transaction, converted_amount_micro_cents, target) ==
    Response(200, "", <<>>,
             <<TransactionResponse(transaction.id, converted_amount_micro_cents,
                                   target, now)>>,
             NoPage, <<>>)

\* The response built from the original row and the converted amount.
ConvertedResponse(transaction, converted_amount_micro_cents, target) ==
    Response(200, "", <<>>,
             <<TransactionResponse(transaction.id, converted_amount_micro_cents,
                                   target, transaction.created_at)>>,
             NoPage, <<>>)

\* ConvertResult writing the converted amount and currency back to the row.
ConvertResult_persists(rows, user, transaction_id, target_currency, outcome) ==
    LET target == upper(target_currency)
        found == FindTransaction(rows, transaction_id, user)
        transaction == found[1]
        c == convert(transaction.amount, transaction.currency, target, outcome)
        at == CHOOSE i \in 1..Len(rows) : rows[i] = transaction
    IN  IF ~MatchesCurrencyRegex(target)
        THEN [resp |-> HTTPError(422, "Currency must be a 3-letter code"),
              rateCalls |-> <<>>, conv |-> NoConv, store |-> rows]
        ELSE IF found = None
        THEN [resp |-> HTTPError(404, "Transaction not found"),
              rateCalls |-> <<>>, conv |-> NoConv, store |-> rows]
        ELSE IF SameCurrency(transaction, target)
        THEN [resp |-> Response(200, "", <<>>, <<RowResponse(transaction)>>, NoPage, <<>>),
              rateCalls |-> <<>>, conv |-> NoConv, store |-> rows]
        ELSE [resp |-> IF c.error # None
                       THEN ConversionFailed(c.error[1])
                       ELSE ConvertedResponse(transaction, c.amount[1], target),
              rateCalls |-> SentRequests(transaction.amount, transaction.currency,
                                         target, outcome),
              conv |-> c,
              store |-> IF c.error # None THEN rows
                        ELSE [rows EXCEPT ![at] = [@ EXCEPT !.amount = c.amount[1],
                                                            !.currency = target]]]

\* What convert_transaction does for an authenticated caller: its response,
\* the requests it sends to the API, what the converter returned and the
\* rows of the table afterwards (the handler adds and commits nothing).
ConvertResult(rows, user, transaction_id, target_currency, outcome) ==
    LET target == upper(target_currency)
        found == FindTransaction(rows, transaction_id, user)
        transaction == found[1]
        c == convert(transaction.amount, transaction.currency, target, outcome)
    IN  IF ~MatchesCurrencyRegex(target)
        THEN [resp |-> HTTPError(422, "Currency must be a 3-letter code"),
              rateCalls |-> <<>>, conv |-> NoConv, store |-> rows]
        ELSE IF found = None
        THEN [resp |-> HTTPError(404, "Transaction not found"),
              rateCalls |-> <<>>, conv |-> NoConv, store |-> rows]
        ELSE IF SameCurrency(transaction, target)
        THEN [resp |-> Response(200, "", <<>>, <<RowResponse(transaction)>>, NoPage, <<>>),
              rateCalls |-> <<>>, conv |-> NoConv, store |-> rows]
        ELSE [resp |-> IF c.error # None
                       THEN ConversionFailed(c.error[1])
                       ELSE ConvertedResponse(transaction, c.amount[1], target),
              rateCalls |-> SentRequests(transaction.amount, transaction.currency,
                                         target, outcome),
              conv |-> c, store |-> rows]

\* Whether convert_transaction reaches the converter for these inputs.
CallsConverter(rows, user, transaction_id, target_currency) ==
    /\ user # NoUser
    /\ MatchesCurrencyRegex(upper(target_currency))
    /\ FindTransaction(rows, transaction_id, user) # None
    /\ ~SameCurrency(FindTransaction(rows, transaction_id, user)[1], upper(target_currency))

\* GET /convert/{transaction_id}/{target_currency}
convert_transaction(user, transaction_id, target_currency) ==
    /\ Idle
    /\ before' = store
    /\ req' = [op |-> "convert", user |-> user, transaction_id |-> transaction_id,
               target_currency |-> target_currency]
    /\ UNCHANGED <<nextId, now>>
    /\ IF user = NoUser
       THEN resp' = Unauthorized /\ rateCalls' = <<>> /\ conv' = NoConv /\ UNCHANGED store
       ELSE \E outcome \in IF CallsConverter(store, user, transaction_id, target_currency)
                           THEN ApiOutcomes
                           ELSE {Outcome("timeout", 0, "", None, "missing", 0)} :
               LET r == ConvertResult(store, user, transaction_id, target_currency, outcome)
               IN  /\ resp' = r.resp
                   /\ rateCalls' = r.rateCalls
                   /\ conv' = r.conv
                   /\ store' = r.store

Next ==
    \/ Tick
    \/ Deliver
    \/ \E user \in Callers, amount \in AmountInputs, currency \in CurrencyInputs :
          create_transaction(user, amount, currency)
    \/ \E user \in Callers, page \in PageInputs, per_page \in PerPageInputs :
          list_transactions(user, page, per_page)
    \/ \E user \in Callers : get_transaction_summary(user)
    \/ \E user \in Callers, transaction_id \in IdInputs, target_currency \in TargetInputs :
          convert_transaction(user, transaction_id, target_currency)

Spec == Init /\ [][Next]_vars

\* ----------------------------------------------------- small amounts --
\* Creation by itself, on amounts around the smallest hundredth: -1.00, 0,
\* 0.004, 0.005, 0.006, 0.29 and 1.00, in upper and lower case.
SmallAmountInputs == AmountInputs \cup {4000, 5000, 6000}
SmallAmountCurrencies == {USD, eur_lower}

NextSmallAmounts ==
    \/ Deliver
    \/ \E user \in Users, amount \in SmallAmountInputs,
          currency \in SmallAmountCurrencies :
          create_transaction(user, amount, currency)

SpecSmallAmounts == Init /\ [][NextSmallAmounts]_vars

\* ------------------------------------------ requests handled together --
\* Two requests of authenticated users with valid inputs, each on its own
\* database session (get_db gives one session per request), handled
\* concurrently: their database statements interleave. A statement sees
\* what was committed before it (read committed, the default of the
\* PostgreSQL database the application runs on); now() is the time at
\* which the session's transaction began.
Sessions == {1, 2}

NoAnswer == [total |-> 0, page |-> 0, per_page |-> 0, total_pages |-> 0, items |-> <<>>]

CreateRequests ==
    {[kind |-> "create", user |-> u, amount |-> 1000000, currency |-> c,
      page |-> 0, per_page |-> 0] : u \in Users, c \in SmallAmountCurrencies}

ListRequests ==
    {[kind |-> "list", user |-> u, amount |-> 0, currency |-> <<>>,
      page |-> p, per_page |-> pp] : u \in Users, p \in {1, 2}, pp \in {1, 2}}

Session(request) ==
    [request |-> request, pc |-> "start", started_at |-> 0, total |-> 0,
     answer |-> NoAnswer]

InitTogether ==
    /\ store = <<>>
    /\ nextId = 1
    /\ now = 0
    /\ req \in {[op |-> "together", sessions |-> <<Session(r1), Session(r2)>>] :
                    r1 \in CreateRequests \cup ListRequests, r2 \in CreateRequests}
    /\ resp = NoResponse
    /\ rateCalls = <<>>
    /\ conv = NoConv
    /\ before = <<>>

\* What a session step leaves alone.
SessionFrame == UNCHANGED <<now, resp, rateCalls, conv, before>>

\* db.commit() of create_transaction, first part: the flush opens the
\* session's transaction, which fixes the value of now() for it.
BeginInsert(s) ==
    LET session == req.sessions[s]
    IN  /\ req.op = "together"
        /\ session.request.kind = "create" /\ session.pc = "start"
        /\ req' = [req EXCEPT !.sessions[s].pc = "begun",
                              !.sessions[s].started_at = now]
        /\ UNCHANGED <<store, nextId>>
        /\ SessionFrame

\* db.commit() of create_transaction, second part: the INSERT, with the id
\* of the sequence and created_at = now() of the transaction, and the
\* COMMIT that makes the row visible.
InsertCommit(s) ==
    LET session == req.sessions[s]
        r == session.request
        new_transaction ==
            [id |-> nextId, user_id |-> r.user,
             amount |-> AmountToStored(validate_amount(r.amount).value),
             currency |-> validate_currency(r.currency).value,
             created_at |-> session.started_at]
    IN  /\ req.op = "together"
        /\ r.kind = "create" /\ session.pc = "begun"
        /\ Len(store) < MaxTx
        /\ store' = Append(store, new_transaction)
        /\ nextId' = nextId + 1
        /\ req' = [req EXCEPT !.sessions[s].pc = "done"]
        /\ SessionFrame

\* The first query of list_transactions: select count(*).
CountQuery(s) ==
    LET session == req.sessions[s]
        r == session.request
    IN  /\ req.op = "together"
        /\ r.kind = "list" /\ session.pc = "start"
        /\ req' = [req EXCEPT !.sessions[s].pc = "counted",
                              !.sessions[s].total = Cardinality(OwnRows(store, r.user))]
        /\ UNCHANGED <<store, nextId>>
        /\ SessionFrame

\* The second query of list_transactions, and the response built from the
\* two results.
ItemsQuery(s) ==
    LET session == req.sessions[s]
        r == session.request
        total == session.total
        offset == (r.page - 1) * r.per_page
        total_pages == IF total > 0 THEN (total + r.per_page - 1) \div r.per_page ELSE 0
    IN  /\ req.op = "together"
        /\ r.kind = "list" /\ session.pc = "counted"
        /\ \E ordered \in OrderByCreatedAtDesc(OwnRows(store, r.user)) :
              LET transactions == LimitOffset(ordered, r.per_page, offset)
              IN  req' = [req EXCEPT
                            !.sessions[s].pc = "done",
                            !.sessions[s].answer =
                                [total |-> total, page |-> r.page,
                                 per_page |-> r.per_page, total_pages |-> total_pages,
                                 items |-> [i \in 1..Len(transactions) |->
                                               RowResponse(transactions[i])]]]
        /\ UNCHANGED <<store, nextId>>
        /\ SessionFrame

\* Time passes while the two requests are handled.
ClockAdvances ==
    /\ req.op = "together"
    /\ now < MaxClock
    /\ now' = now + 1
    /\ UNCHANGED <<store, nextId, req, resp, rateCalls, conv, before>>

NextTogether ==
    \/ ClockAdvances
    \/ \E s \in Sessions : BeginInsert(s)
    \/ \E s \in Sessions : InsertCommit(s)
    \/ \E s \in Sessions : CountQuery(s)
    \/ \E s \in Sessions : ItemsQuery(s)

SpecTogether == InitTogether /\ [][NextTogether]_vars

\* ------------------------------------------- UserInjectionMiddleware --
\* An Authorization header is a sequence of pieces: the text "Bearer " (with
\* its space), other scheme words, and tokens. None is a request without
\* the header.
PUBLIC_PATHS == {"/health", "/docs", "/redoc", "/openapi.json", "/register", "/login"}

PathInputs == {"/transactions/", "/convert/1/EUR", "/login", "/login/"}

\* Tokens: signed and current with a subject, without one, with an empty
\* one; expired; not a JWT at all.
TokenInputs == {"jwt_alice", "jwt_deleted", "jwt_no_sub", "jwt_empty_sub",
                "jwt_expired", "invalid_token_here"}

HeaderInputs ==
    {None, Some(<<>>), Some(<<"invalid_format">>), Some(<<"Bearer">>),
     Some(<<"Bearer ">>), Some(<<"Basic ", "jwt_alice">>),
     Some(<<"bearer ", "jwt_alice">>), Some(<<"jwt_alice">>),
     Some(<<"Bearer ", "Bearer ", "jwt_alice">>)}
    \cup {Some(<<"Bearer ", t>>) : t \in TokenInputs}

\* The users table, by email.
UserByEmail(email) ==
    CASE email = "alice@example.com" -> 1
      [] email = "bob@example.com" -> 2
      [] OTHER -> NoUser

\* request.headers.get("Authorization", "")
HeaderText(authorization) == IF authorization = None THEN <<>> ELSE authorization[1]

\* auth_header.startswith("Bearer ")
StartsWithBearer(auth_header) == auth_header # <<>> /\ auth_header[1] = "Bearer "

\* auth_header.replace("Bearer ", ""): every occurrence goes.
ReplaceBearer(auth_header) == SelectSeq(auth_header, LAMBDA piece : piece # "Bearer ")

\* decode_access_token: the payload, or the exception jwt.decode raises.
decode_access_token(token) ==
    IF Len(token) # 1 THEN [raised |-> TRUE, sub |-> None]
    ELSE CASE token[1] = "jwt_alice" -> [raised |-> FALSE, sub |-> Some("alice@example.com")]
           [] token[1] = "jwt_deleted" -> [raised |-> FALSE, sub |-> Some("deleted@example.com")]
           [] token[1] = "jwt_no_sub" -> [raised |-> FALSE, sub |-> None]
           [] token[1] = "jwt_empty_sub" -> [raised |-> FALSE, sub |-> Some("")]
           [] OTHER -> [raised |-> TRUE, sub |-> None]

\* UserInjectionMiddleware.dispatch: the value of request.state.user when
\* call_next is reached, and whether it is reached. db_up says whether the
\* users query can be executed.
dispatch(path, authorization, db_up) ==
    LET auth_header == HeaderText(authorization)
        payload == decode_access_token(ReplaceBearer(auth_header))
        email == payload.sub
        Forward(user) == [forwarded |-> TRUE, user |-> user]
    IN  IF path \in PUBLIC_PATHS THEN Forward(NoUser)
        ELSE IF ~StartsWithBearer(auth_header) THEN Forward(NoUser)
        ELSE IF payload.raised THEN Forward(NoUser)
        ELSE IF email = None \/ email = Some("") THEN Forward(NoUser)
        ELSE IF ~db_up THEN Forward(NoUser)
        ELSE Forward(UserByEmail(email[1]))

InitMiddleware ==
    /\ store = <<>>
    /\ nextId = 1
    /\ now = 0
    /\ req \in {[op |-> "dispatch", path |-> p, authorization |-> h, db_up |-> d,
                 dispatched |-> FALSE, forwarded |-> FALSE, user |-> NoUser] :
                    p \in PathInputs, h \in HeaderInputs, d \in BOOLEAN}
    /\ resp = NoResponse
    /\ rateCalls = <<>>
    /\ conv = NoConv
    /\ before = <<>>

Dispatch ==
    /\ req.op = "dispatch" /\ ~req.dispatched
    /\ LET r == dispatch(req.path, req.authorization, req.db_up)
       IN  req' = [req EXCEPT !.dispatched = TRUE, !.forwarded = r.forwarded,
                              !.user = r.user]
    /\ UNCHANGED <<store, nextId, now, resp, rateCalls, conv, before>>

NextMiddleware == Dispatch

SpecMiddleware == InitMiddleware /\ [][NextMiddleware]_vars

\* ============================================================== claims --
Created == req.op = "create" /\ resp.status = 201

\* The transactions of a table whose owner is a user.
OwnedBy(rows, user) == {t \in {rows[i] : i \in 1..Len(rows)} : t.user_id = user}
LastRow == store[Len(store)]

\* The total the summary of a table reports to a user for a currency, 0
\* when the currency has no entry (in millionths).
TotalOf(rows, user, currency) ==
    LET summary == CurrencySummary(rows, user)
        at == {i \in 1..Len(summary) : summary[i].currency = currency}
    IN  IF at = {} THEN 0 ELSE summary[CHOOSE i \in at : TRUE].total

\* C1: an accepted create of amount a stores round(a, 2) x 10,000 scale
\* units, and the created record is returned with the amount round(a, 2).
C1_CreateStoresMicroCents ==
    Created =>
        /\ LastRow.amount * (DecUnit \div 10000) = Round2(req.amount)
        /\ resp.items[1].amount = Round2(req.amount)

\* C2: the summary total of a currency is the exact sum of the amounts
\* submitted in it: an accepted create of amount a raises the owner's
\* total of that currency by exactly round(a, 2).
C2_SummaryIsExactSum ==
    Created =>
        TotalOf(store, req.user, LastRow.currency)
            = TotalOf(before, req.user, LastRow.currency) + Round2(req.amount)

\* C3: a summary has exactly one entry per distinct currency of the owner's
\* transactions, in strictly ascending order of currency code, and is empty
\* when the owner has no transactions.
C3_SummaryOnePerCurrencyAscending ==
    (req.op = "summary" /\ resp.status = 200) =>
        LET own == OwnedBy(store, req.user)
            s == resp.summary
        IN  /\ {s[i].currency : i \in 1..Len(s)} = {t.currency : t \in own}
            /\ Len(s) = Cardinality({t.currency : t \in own})
            /\ \A i, j \in 1..Len(s) : i < j => TextLess(s[i].currency, s[j].currency)
            /\ own = {} => s = <<>>

C3_Witness ==
    /\ req.op = "summary"
    /\ resp.status = 200
    /\ Len(resp.summary) = 2
    /\ Cardinality(OwnedBy(store, req.user)) >= 2

\* The requests of an authenticated caller to the conversion endpoint.
Converting == req.op = "convert" /\ req.user # NoUser

\* The rows with the requested id that belong to the caller / to anyone.
OwnedTarget == {t \in OwnedBy(store, req.user) : t.id = req.transaction_id}
AnyTarget == {store[i] : i \in {j \in 1..Len(store) : store[j].id = req.transaction_id}}

\* C4: converting one's own transaction to the currency it is stored in
\* sends no request to the exchange-rate API and returns the stored id,
\* amount, currency and creation timestamp.
C4_SameCurrencyReturnsStored ==
    Converting =>
        \A t \in OwnedTarget :
            upper(req.target_currency) = t.currency =>
                /\ rateCalls = <<>>
                /\ ~conv.called
                /\ resp.status = 200
                /\ Len(resp.items) = 1
                /\ resp.items[1].id = t.id
                /\ resp.items[1].amount = serialize_amount(t.amount)
                /\ resp.items[1].currency = t.currency
                /\ resp.items[1].created_at = t.created_at

C4_Witness ==
    /\ Converting
    /\ req.target_currency = eur_lower
    /\ \E t \in OwnedTarget : t.currency = EUR /\ t.created_at < now
    /\ resp.status = 200

\* C5: for a target currency of valid shape, converting a transaction that
\* belongs to another user gets the same 404 "Transaction not found" as
\* converting an id that does not exist, and no request goes to the
\* exchange-rate API.
C5_ForeignSameAsMissing ==
    (Converting /\ MatchesCurrencyRegex(upper(req.target_currency)) /\ OwnedTarget = {}) =>
        /\ resp = HTTPError(404, "Transaction not found")
        /\ rateCalls = <<>>
        /\ ~conv.called

C5_Witness ==
    /\ Converting
    /\ MatchesCurrencyRegex(upper(req.target_currency))
    /\ OwnedTarget = {}
    /\ AnyTarget # {}
    /\ resp.status = 404

\* C6: list and summary of a user contain only that user's transactions,
\* total is the number of the user's transactions, and a create by another
\* user changes neither the list nor the summary of the user.
C6_ReadsAreOwnerScoped ==
    /\ (req.op = "list" /\ resp.status = 200) =>
          /\ \A i \in 1..Len(resp.items) :
                \E t \in OwnedBy(store, req.user) : resp.items[i] = RowResponse(t)
          /\ resp.page.total = Cardinality(OwnedBy(store, req.user))
    /\ (req.op = "summary" /\ resp.status = 200) =>
          \A i \in 1..Len(resp.summary) :
             /\ \E t \in OwnedBy(store, req.user) : t.currency = resp.summary[i].currency
             /\ resp.summary[i].total
                  = SummaryTotal(SumAmounts(store, req.user, resp.summary[i].currency))
    /\ Created =>
          \A other \in Users \ {req.user} :
             /\ OwnedBy(store, other) = OwnedBy(before, other)
             /\ CurrencySummary(store, other) = CurrencySummary(before, other)
             /\ \A page \in 1..2, per_page \in 1..2 :
                   {ListResponse(store, other, page, per_page, o) :
                        o \in OrderByCreatedAtDesc(OwnedBy(store, other))}
                 = {ListResponse(before, other, page, per_page, o) :
                        o \in OrderByCreatedAtDesc(OwnedBy(before, other))}

C6_Witness ==
    /\ req.op = "list"
    /\ resp.status = 200
    /\ Len(resp.items) >= 1
    /\ \E other \in Users \ {req.user} : OwnedBy(store, other) # {}

\* C7: a convert request leaves the table as it was, whatever its outcome.
C7_ConvertLeavesStore ==
    req.op = "convert" => store = before

C7_Witness ==
    /\ req.op = "convert"
    /\ conv.called
    /\ conv.error = None
    /\ resp.status = 200
    /\ store # <<>>

\* C8: a successful conversion to another currency returns the original
\* id and creation timestamp, the uppercased target currency and the
\* amount the converter returned.
C8_ConvertedKeepsMetadata ==
    (Converting /\ conv.called /\ conv.error = None) =>
        /\ resp.status = 200
        /\ Len(resp.items) = 1
        /\ \E t \in OwnedTarget :
              /\ resp.items[1].id = t.id
              /\ resp.items[1].created_at = t.created_at
              /\ resp.items[1].currency # t.currency
        /\ resp.items[1].currency = upper(req.target_currency)
        /\ resp.items[1].amount = serialize_amount(conv.amount[1])

C8_Witness ==
    /\ Converting
    /\ conv.called
    /\ conv.amount = Some(850000)
    /\ req.target_currency = eur_lower
    /\ \E t \in OwnedTarget : t.created_at < now /\ t.id < Len(store)
    /\ resp.status = 200

\* C9: whatever error the converter returns, the client gets the one 503
\* "Currency conversion failed", which does not carry the converter's
\* message.
C9_ConverterErrorIsGeneric ==
    (Converting /\ conv.called /\ conv.error # None) =>
        /\ resp = HTTPError(503, "Currency conversion failed")
        /\ resp.detail # conv.error[1]

C9_Witness ==
    /\ Converting
    /\ conv.error = Some("Currency API error: foo-bar")
    /\ resp.status = 503

\* C10: a target currency of valid 3-letter shape that is not in the
\* registry is rejected with 422 "Currency code not supported", and no
\* request goes to the exchange-rate API.
C10_UnsupportedTargetRejected ==
    (Converting /\ MatchesCurrencyRegex(upper(req.target_currency))
                /\ Len(req.target_currency) = 3
                /\ upper(req.target_currency) \notin SUPPORTED_CURRENCIES) =>
        /\ resp = HTTPError(422, "Currency code not supported")
        /\ rateCalls = <<>>

\* Three ASCII letters: the shape of a currency code.
ThreeLetters(s) == Len(s) = 3 /\ \A i \in 1..3 : s[i] \in 65..90 \cup 97..122

\* C11: at creation a currency that is not three ASCII letters is rejected
\* as badly formed and never as unsupported; a currency of three letters
\* that is not in the registry is rejected as unsupported.
C11_ShapeBeforeRegistry ==
    (req.op = "create" /\ req.user # NoUser) =>
        LET errors == {resp.errors[i] : i \in 1..Len(resp.errors)}
        IN  /\ ~ThreeLetters(req.currency) =>
                 /\ resp.status = 422
                 /\ "Currency must be a 3-letter code" \in errors
                 /\ "Currency code not supported" \notin errors
            /\ (ThreeLetters(req.currency)
                    /\ upper(req.currency) \notin SUPPORTED_CURRENCIES) =>
                 /\ resp.status = 422
                 /\ "Currency code not supported" \in errors

\* C12: in a conversion the validation of the target currency comes before
\* the lookup (a badly formed target gets the validation error whether or
\* not the transaction exists or is the caller's), and the lookup comes
\* before any request to the exchange-rate API.
C12_ValidationThenLookupThenRate ==
    Converting =>
        /\ ~ThreeLetters(req.target_currency) =>
              /\ resp = HTTPError(422, "Currency must be a 3-letter code")
              /\ rateCalls = <<>>
        /\ OwnedTarget = {} => (rateCalls = <<>> /\ ~conv.called)

Converted == req.op = "rate" /\ conv.called

\* C14: whatever the exchange-rate API does, convert returns either an
\* amount and no message or no amount and a non-empty message; never
\* neither and never both.
C14_ConvertReturnsAmountOrMessage ==
    Converted =>
        /\ (conv.amount = None) # (conv.error = None)
        /\ Len(conv.amount) <= 1
        /\ Len(conv.error) <= 1
        /\ conv.amount # None => conv.amount[1] \in Int
        /\ conv.error # None => conv.error[1] # ""

C14_Witness ==
    /\ Converted
    /\ req.outcome.kind = "not_object"
    /\ conv.amount = None
    /\ conv.error # None

\* The message the claim gives for an error code.
MessageOfCode(code) ==
    CASE code = "unsupported-code" -> "Currency code not supported"
      [] code = "malformed-request" -> "Invalid currency conversion request"
      [] code = "invalid-key" -> "Invalid API key"
      [] code = "inactive-account" -> "Currency API account is inactive"
      [] code = "quota-reached" -> "Currency API quota exceeded"
      [] OTHER -> "Currency API error: " \o code

\* C15: for a response with result = "error" the message depends on the
\* error-type code alone, by the table with "Currency API error: <code>"
\* for any other code, and no amount is returned even when the body
\* carries a conversion_result.
C15_ErrorCodeDecidesMessage ==
    (Converted /\ req.outcome.kind = "object" /\ req.outcome.result = "error") =>
        /\ conv.amount = None
        /\ req.outcome.error_type # None =>
              conv.error = Some(MessageOfCode(req.outcome.error_type[1]))

C15_Witness ==
    /\ Converted
    /\ req.outcome.kind = "object"
    /\ req.outcome.result = "error"
    /\ req.outcome.error_type = Some("foo-bar")
    /\ req.outcome.result_type = "number"
    /\ conv.error = Some("Currency API error: foo-bar")

\* C16: a timeout yields the timed-out message and not the connection
\* one, a non-2xx status s yields "Currency API returned error: s" whatever
\* the body, another network failure yields the connection message, a 2xx
\* body that does not parse yields the parse message, and a success body
\* without conversion_result yields "Invalid response from currency API".
C16_TransportFailureMessages ==
    Converted =>
        /\ req.outcome.kind = "timeout" =>
              conv.error = Some("Currency conversion request timed out")
        /\ req.outcome.kind = "status" =>
              conv.error = Some("Currency API returned error: " \o ToString(req.outcome.status))
        /\ req.outcome.kind = "network" =>
              conv.error = Some("Failed to connect to currency API: " \o "Connection refused")
        /\ req.outcome.kind = "bad_json" =>
              conv.error = Some("Failed to parse currency API response: " \o "Expecting value")
        /\ (req.outcome.kind = "object" /\ req.outcome.result # "error"
                /\ req.outcome.result_type = "missing") =>
              conv.error = Some("Invalid response from currency API")

C16_Witness ==
    /\ Converted
    /\ req.outcome.kind = "status"
    /\ req.outcome.result = "error"
    /\ conv.error = Some("Currency API returned error: 403")

Listed == req.op = "list" /\ resp.status = 200

Min(a, b) == IF a < b THEN a ELSE b
Max(a, b) == IF a > b THEN a ELSE b

\* C17: for an owner with total transactions, list returns that total on
\* every page and page size, total_pages = ceil(total / per_page) (0 when
\* total = 0) and min(per_page, max(0, total - (page - 1) * per_page)) items.
C17_PaginationArithmetic ==
    Listed =>
        LET total == Cardinality(OwnedBy(store, req.user))
            pages == resp.page.total_pages
        IN  /\ resp.page.total = total
            /\ resp.page.page = req.page
            /\ resp.page.per_page = req.per_page
            /\ IF total = 0 THEN pages = 0
               ELSE /\ pages * req.per_page >= total
                    /\ (pages - 1) * req.per_page < total
            /\ Len(resp.items)
                 = Min(req.per_page, Max(0, total - (req.page - 1) * req.per_page))

C17_Witness ==
    /\ Listed
    /\ req.page = 2
    /\ req.per_page = 1
    /\ resp.page.total = 2
    /\ resp.page.total_pages = 2
    /\ Len(resp.items) = 1

\* C18: list returns the owner's transactions newest first: by creation
\* timestamp descending, transactions of equal timestamp in a fixed order
\* given by their insertion (the later one first), so that the transaction
\* created last is the first item of page 1.
C18_NewestFirstStableTies ==
    Listed =>
        /\ \A i, j \in 1..Len(resp.items) :
              i < j =>
                 \/ resp.items[i].created_at > resp.items[j].created_at
                 \/ /\ resp.items[i].created_at = resp.items[j].created_at
                    /\ resp.items[i].id > resp.items[j].id
        /\ (req.page = 1 /\ resp.items # <<>>) =>
              \A t \in OwnedBy(store, req.user) : t.id <= resp.items[1].id


\* C19: a create whose amount is zero or negative is rejected with 422
\* "Amount must be positive", and the table is left as it was: no
\* transaction is added for any owner.
C19_NonPositiveAmountRejected ==
    (req.op = "create" /\ req.user # NoUser /\ req.amount <= 0) =>
        /\ resp.status = 422
        /\ \E i \in 1..Len(resp.errors) : resp.errors[i] = "Amount must be positive"
        /\ resp.items = <<>>
        /\ store = before
        /\ \A u \in Users : OwnedBy(store, u) = OwnedBy(before, u)

\* A create of amount zero in a supported currency, made when the table
\* already holds a transaction, has been answered.
C19_Witness ==
    /\ req.op = "create" /\ req.user # NoUser
    /\ req.amount = 0
    /\ validate_currency(req.currency).ok
    /\ before # <<>>
    /\ resp # NoResponse


\* The identifiers of the transactions of a table.
IdsOf(rows) == {rows[i].id : i \in 1..Len(rows)}

\* The number of an owner's transactions of an amount and a currency.
CountOf(rows, user, amount, currency) ==
    Cardinality({i \in 1..Len(rows) : /\ rows[i].user_id = user
                                      /\ rows[i].amount = amount
                                      /\ rows[i].currency = currency})

\* C20: an accepted create adds exactly one transaction, whose id differs
\* from every id already in the table, owned by the caller and returned in
\* the response, whether or not the caller already has transactions of the
\* same amount and currency: their number goes up by one, and so does the
\* caller's total, while every other owner's transactions stay as they were.
C20_CreateAddsOneFreshRow ==
    Created =>
        /\ store = Append(before, LastRow)
        /\ LastRow.id \notin IdsOf(before)
        /\ Cardinality(IdsOf(store)) = Len(store)
        /\ LastRow.user_id = req.user
        /\ resp.items[1].id = LastRow.id
        /\ CountOf(store, req.user, LastRow.amount, LastRow.currency)
              = CountOf(before, req.user, LastRow.amount, LastRow.currency) + 1
        /\ Cardinality(OwnedBy(store, req.user))
              = Cardinality(OwnedBy(before, req.user)) + 1
        /\ \A u \in Users \ {req.user} : OwnedBy(store, u) = OwnedBy(before, u)

\* A create has been accepted from a caller who already had a transaction
\* of the same amount and currency, made at the same instant.
C20_Witness ==
    /\ Created
    /\ \E i \in 1..Len(before) :
          /\ before[i].user_id = LastRow.user_id
          /\ before[i].amount = LastRow.amount
          /\ before[i].currency = LastRow.currency
          /\ before[i].created_at = LastRow.created_at


\* The four operations on transactions.
Operations == {"create", "list", "summary", "convert"}

\* C21: a request of create, list, summary or convert that carries no
\* resolved caller is answered 401 "Could not validate credentials", with
\* nothing of the table in the answer, the table left as it was and no rate
\* request sent, whatever the other inputs of the request are.
C21_UnauthenticatedGets401 ==
    (req.op \in Operations /\ req.user = NoUser) =>
        /\ resp.status = 401
        /\ resp.detail = "Could not validate credentials"
        /\ resp.errors = <<>> /\ resp.items = <<>>
        /\ resp.page = NoPage /\ resp.summary = <<>>
        /\ store = before
        /\ rateCalls = <<>>
        /\ ~conv.called

\* An unauthenticated request of each kind can be answered while the table
\* holds transactions: here a conversion of an existing transaction to
\* another currency.
C21_Witness ==
    /\ req.op = "convert" /\ req.user = NoUser
    /\ AnyTarget # {}
    /\ \A t \in AnyTarget : t.currency # req.target_currency
    /\ MatchesCurrencyRegex(req.target_currency)
    /\ resp.status = 401


\* conversion_result x 10,000 truncated toward zero, in exact arithmetic.
ExactScaleUnits(conversion_result) ==
    LET step == DecUnit \div 10000
    IN  IF conversion_result >= 0 THEN conversion_result \div step
        ELSE -((-conversion_result) \div step)

\* The converter has been given a success body with a numeric result.
ConvertedNumber ==
    /\ Converted
    /\ req.outcome.kind = "object" /\ req.outcome.result = "success"
    /\ req.outcome.result_type = "number"

\* C22: on a well-formed success response the converter returns
\* conversion_result x 10,000 truncated toward zero; a result of at most
\* four fractional digits comes back exactly, and 9.753024 gives 97530.
C22_ResultTimesScaleTruncated ==
    ConvertedNumber =>
        /\ conv.error = None
        /\ conv.amount = Some(ExactScaleUnits(req.outcome.conversion_result))


\* C23: every stored transaction has a strictly positive amount, also when
\* the amount sent is positive and rounds to 0.00 at two decimals (0.004).
C23_StoredAmountsPositive ==
    \A i \in 1..Len(store) : store[i].amount > 0


\* The caller holds exactly one transaction.
HoldsOne == req.user # NoUser /\ Cardinality(OwnedBy(store, req.user)) = 1
TheOne == CHOOSE t \in OwnedBy(store, req.user) : TRUE

\* C24: one scale factor serves every reading of a stored amount: for an
\* owner holding exactly one transaction, the amount list reports for it,
\* the amount a conversion to its own currency reports for it and the total
\* summary reports for its currency are the same number.
C24_OneScaleFactor ==
    /\ (Listed /\ HoldsOne /\ req.page = 1) =>
          /\ Len(resp.items) = 1
          /\ resp.items[1].amount = TotalOf(store, req.user, TheOne.currency)
    /\ (Converting /\ HoldsOne /\ resp.status = 200
           /\ OwnedTarget # {} /\ upper(req.target_currency) = TheOne.currency) =>
          resp.items[1].amount = TotalOf(store, req.user, TheOne.currency)
    /\ (req.op = "summary" /\ HoldsOne) =>
          /\ Len(resp.summary) = 1
          /\ resp.summary[1].total = RowResponse(TheOne).amount


\* Three uppercase ASCII letters.
ThreeUpperLetters(s) == Len(s) = 3 /\ \A i \in 1..3 : IsUpperLetter(s[i])

\* C25: in every state each stored transaction's currency is three
\* uppercase letters and a member of the registry of supported currencies;
\* a create accepted with a lowercase code stores and returns the code in
\* uppercase.
C25_StoredCurrencySupportedUppercase ==
    /\ \A i \in 1..Len(store) :
          /\ ThreeUpperLetters(store[i].currency)
          /\ store[i].currency \in SUPPORTED_CURRENCIES
    /\ Created =>
          /\ LastRow.currency = upper(req.currency)
          /\ resp.items[1].currency = upper(req.currency)

\* A create sent with the lowercase code "eur" has been accepted.
C25_Witness ==
    /\ Created
    /\ req.currency = eur_lower
    /\ LastRow.currency = EUR


\* C26: stored transactions are never changed and never removed: whatever
\* step is taken (a create, list, summary or convert by any caller, the
\* clock, the delivery of an answer), every transaction of the table is
\* still there afterwards, at its place, with the same id, owner, amount,
\* currency and creation timestamp.
C26_TransactionsImmutable ==
    [][ /\ Len(store') >= Len(store)
        /\ \A i \in 1..Len(store) : store'[i] = store[i] ]_vars

\* A transaction created at an earlier instant is still in the table after
\* its owner converted it to another currency and another user created a
\* transaction.
C26_Witness ==
    /\ Len(store) = 2
    /\ store[1].created_at < now
    /\ store[1].user_id # store[2].user_id
    /\ Converting /\ req.user = store[1].user_id
    /\ req.transaction_id = store[1].id
    /\ resp.status = 200
    /\ resp.items[1].currency # store[1].currency


\* C27: creation timestamps never decrease along the order of insertion:
\* of two transactions of the table, the one inserted first has a creation
\* timestamp no later than the other's, also when the two creates were
\* handled at the same time.
C27_TimestampsFollowInsertion ==
    \A i, j \in 1..Len(store) :
        i < j => store[i].created_at <= store[j].created_at


\* The answers of list that are there to look at: the answer to the request
\* being handled, or those of the list requests handled together.
ListAnswers ==
    IF Listed
    THEN {[total |-> resp.page.total, page |-> resp.page.page,
           per_page |-> resp.page.per_page, total_pages |-> resp.page.total_pages,
           items |-> resp.items]}
    ELSE IF req.op = "together"
    THEN {req.sessions[s].answer :
             s \in {x \in Sessions : /\ req.sessions[x].request.kind = "list"
                                     /\ req.sessions[x].pc = "done"}}
    ELSE {}

\* C28: an answer of list is consistent in itself, also when creates of the
\* same owner are handled at the same time: the number of items is
\* min(per_page, max(0, total - (page - 1) * per_page)), and a page that has
\* items is not beyond total_pages.
C28_ListAnswerConsistent ==
    \A a \in ListAnswers :
        /\ Len(a.items) = Min(a.per_page, Max(0, a.total - (a.page - 1) * a.per_page))
        /\ a.items # <<>> => a.page <= a.total_pages


\* The ids on a page of an answer.
PageIds(items) == {items[i].id : i \in 1..Len(items)}

\* Whether, for the table as it is, page 1 as it was answered and the
\* further pages up to total_pages, each under the order its own query
\* returns, hold every transaction of the caller on exactly one page.
PagesCoverOnce ==
    LET mine == OwnedBy(store, req.user)
        orders == OrderByCreatedAtDesc(mine)
        further == 2..resp.page.total_pages
        ItemsOf(q, ordered) ==
            ListResponse(store, req.user, q, req.per_page, ordered).items
    IN  \A f \in [further -> orders] :
            LET IdsOn(q) == IF q = 1 THEN PageIds(resp.items)
                            ELSE PageIds(ItemsOf(q, f[q]))
            IN  \A t \in mine :
                    Cardinality({q \in 1..resp.page.total_pages : t.id \in IdsOn(q)}) = 1

\* C29: for a table that does not change and a page size in 1..50, the
\* pages 1..total_pages of list return each of the owner's transactions
\* exactly once, also when transactions share a creation timestamp, and a
\* page beyond total_pages has no items.
C29_PagesPartitionTransactions ==
    Listed =>
        /\ req.page = 1 => PagesCoverOnce
        /\ req.page > resp.page.total_pages => resp.items = <<>>


\* The middleware has handled the request.
Dispatched == req.op = "dispatch" /\ req.dispatched

\* The tokens that decode, and the subject each carries.
SubjectOf(token) ==
    CASE token = "jwt_alice" -> Some("alice@example.com")
      [] token = "jwt_deleted" -> Some("deleted@example.com")
      [] token = "jwt_empty_sub" -> Some("")
      [] OTHER -> None
Decodes(token) == token \in {"jwt_alice", "jwt_deleted", "jwt_no_sub", "jwt_empty_sub"}

\* The header is "Bearer " followed by one token, which decodes.
BearerTokenDecodes ==
    /\ req.authorization # None
    /\ Len(req.authorization[1]) = 2
    /\ req.authorization[1][1] = "Bearer "
    /\ Decodes(req.authorization[1][2])

\* C30: the middleware forwards every request, whatever its Authorization
\* header; request.state.user is a user only when the path is not public,
\* the header is a Bearer token that decodes, and a user with the token's
\* subject email exists, and then it is that user; otherwise it is None.
C30_MiddlewareForwardsAndInjects ==
    Dispatched =>
        /\ req.forwarded
        /\ req.user # NoUser =>
              /\ req.path \notin PUBLIC_PATHS
              /\ BearerTokenDecodes
              /\ SubjectOf(req.authorization[1][2]) # None
              /\ req.user = UserByEmail(SubjectOf(req.authorization[1][2])[1])
        /\ (req.path \notin PUBLIC_PATHS /\ req.db_up
               /\ req.authorization = Some(<<"Bearer ", "jwt_alice">>)) =>
              req.user = 1

====
